---------------------------- MODULE Spec2Model ----------------------------
(***************************************************************************)
(* Model of mutwo.ext-isis: IsisScoreConverter (event -> ISiS score file)  *)
(* and IsisConverter (score file -> external ISiS call -> cleanup).        *)
(*                                                                         *)
(* Python values are modelled as follows.                                  *)
(*   str            a TLA+ string                                          *)
(*   tuple / list   a sequence                                             *)
(*   SimpleEvent    [kind, duration, has, pitch_list, volume,              *)
(*                   consonant_tuple, vowel]; has is the set of attribute  *)
(*                   names the object carries (what hasattr answers), the  *)
(*                   value of an attribute outside has is never read       *)
(*   ComplexEvent   [kind, events]                                         *)
(*   Pitch          [midi_pitch_number], a float with integral value       *)
(*   Volume         [amplitude], counted in tenths (5 is 0.5, 10 is 1)     *)
(*   file system    path -> [exists, lines]                                *)
(* A call that raises is a result record whose exc field names the         *)
(* exception; exc = "" is a normal return.                                 *)
(***************************************************************************)
EXTENDS Integers, Sequences, FiniteSets, TLC

VARIABLES
    fs,                 \* the file system: path -> [exists, lines]
    ncalls,             \* number of convert calls started so far
    pc,                 \* per caller: position inside convert
    entry,              \* per caller: "score" (IsisScoreConverter.convert) or "isis" (IsisConverter.convert)
    conv,               \* per caller: configuration of the converter object(s) of the call
    caller_event,       \* per caller: the event object the caller passed
    path,               \* per caller: the path argument
    score_path,         \* per caller: path of the score file
    event_to_convert,   \* per caller: local name event_to_convert of IsisScoreConverter.convert
    extracted,          \* per caller: extracted_data_dict_per_event_tuple
    score_config_file,  \* per caller: the ConfigParser object
    invoked,            \* per caller: what os.system was called with and what it saw
    trace,              \* per caller: side effects of the running call, in order
    exc                 \* per caller: exception that ended the call ("" if none)

vars == <<fs, ncalls, pc, entry, conv, caller_event, path, score_path,
          event_to_convert, extracted, score_config_file, invoked, trace, exc>>

-----------------------------------------------------------------------------
(* Bounds *)

MaxLen == 3

MaxCalls == 2

Procs == {1, 2}

-----------------------------------------------------------------------------
(* isis_constants.py *)

ISIS_PATH == "isis.sh"

SILENT_FLAG == "--quiet"

SECTION_LYRIC_NAME == "lyrics"

SECTION_SCORE_NAME == "score"

-----------------------------------------------------------------------------
(* Python string helpers *)

\* sep.join(parts)
RECURSIVE Join(_, _)
Join(parts, sep) ==
    IF parts = <<>> THEN ""
    ELSE IF Len(parts) = 1 THEN parts[1]
    ELSE parts[1] \o sep \o Join(Tail(parts), sep)

\* s.startswith(prefix)
StartsWith(s, prefix) ==
    /\ Len(prefix) <= Len(s)
    /\ SubSeq(s, 1, Len(prefix)) = prefix

\* s.split(sep): the inverse of sep.join
RECURSIVE SplitFrom(_, _, _, _)
SplitFrom(s, sep, start, i) ==
    IF i + Len(sep) - 1 > Len(s)
    THEN <<SubSeq(s, start, Len(s))>>
    ELSE IF SubSeq(s, i, i + Len(sep) - 1) = sep
    THEN <<SubSeq(s, start, i - 1)>> \o SplitFrom(s, sep, i + Len(sep), i + Len(sep))
    ELSE SplitFrom(s, sep, start, i + 1)

Split(s, sep) == SplitFrom(s, sep, 1, 1)

\* str(n) for an int
StrInt(n) == ToString(n)

\* str(x) for a float with integral value, e.g. 60.0
StrFloat(n) == ToString(n) \o ".0"

\* str(amplitude): amplitudes are counted in tenths; a whole amplitude is a
\* Python int (DirectVolume(0), DirectVolume(1)), any other one a float (0.5).
StrAmplitude(a) ==
    IF a % 10 = 0 THEN ToString(a \div 10)
    ELSE ToString(a \div 10) \o "." \o ToString(a % 10)

\* optionxform of configparser: keys are stored in lower case
OptionXForm(key) ==
    CASE key = "globalTransposition" -> "globaltransposition"
      [] key = "midiNotes" -> "midinotes"
      [] OTHER -> key

-----------------------------------------------------------------------------
(* Events (mutwo.core events, as the tests build them) *)

\* a pitch object with the given midi_pitch_number
Pitch(n) == [midi_pitch_number |-> n]

\* parameters.volumes.DirectVolume(amplitude)
DirectVolume(a) == [amplitude |-> a]

\* events.basic.SimpleEvent(duration): carries a duration and nothing else
SimpleEvent(duration) ==
    [kind |-> "SimpleEvent", duration |-> duration, has |-> {},
     pitch_list |-> <<>>, volume |-> DirectVolume(0),
     consonant_tuple |-> <<>>, vowel |-> ""]

\* the tests' NoteLikeWithText(pitch_list, duration, volume, consonant_tuple, vowel)
NoteLikeWithText(pitch_list, duration, volume, consonant_tuple, vowel) ==
    [kind |-> "SimpleEvent", duration |-> duration,
     has |-> {"pitch_list", "volume", "consonant_tuple", "vowel"},
     pitch_list |-> pitch_list, volume |-> DirectVolume(volume),
     consonant_tuple |-> consonant_tuple, vowel |-> vowel]

\* the same event without the attribute name (an event class that lacks it)
Without(event, name) == [event EXCEPT !.has = @ \ {name}]

SequentialEvent(events) == [kind |-> "SequentialEvent", events |-> events]

SimultaneousEvent(events) == [kind |-> "SimultaneousEvent", events |-> events]

\* isinstance(event, events.abc.ComplexEvent)
IsComplexEvent(event) == event.kind \in {"SequentialEvent", "SimultaneousEvent"}

\* isinstance(event, events.basic.SimpleEvent)
IsSimpleEvent(event) == event.kind = "SimpleEvent"

\* The simple events calls are made with.
SimpleEvents ==
    { SimpleEvent(1),
      SimpleEvent(2),
      NoteLikeWithText(<<>>, 1, 10, <<>>, ""),
      NoteLikeWithText(<<Pitch(60)>>, 2, 5, <<"t">>, "a"),
      NoteLikeWithText(<<Pitch(62), Pitch(64)>>, 1, 10, <<"t", "r">>, ""),
      NoteLikeWithText(<<Pitch(64)>>, 1, 5, <<>>, ""),
      Without(NoteLikeWithText(<<Pitch(60)>>, 2, 5, <<"t">>, "a"), "volume"),
      Without(NoteLikeWithText(<<>>, 1, 10, <<"t">>, "a"), "vowel"),
      Without(NoteLikeWithText(<<>>, 1, 10, <<"t">>, "a"), "volume") }

\* The polyphonic events calls are made with: two voices.
SimultaneousEvents ==
    { SimultaneousEvent(<<SimpleEvent(1), SimpleEvent(2)>>) }

\* All sequences over S of length 1..n
SeqsUpTo(S, n) == UNION {[1..k -> S] : k \in 1..n}

\* Every event of the model: a simple event, a simultaneous event, or a
\* sequential event of 1..MaxLen simple or simultaneous events.
Events ==
    SimpleEvents \cup SimultaneousEvents \cup
    {SequentialEvent(s) : s \in SeqsUpTo(SimpleEvents \cup SimultaneousEvents, MaxLen)}

\* A few events for the runs that make several calls.
FewEvents ==
    { NoteLikeWithText(<<Pitch(60)>>, 2, 5, <<"t">>, "a"),
      SimpleEvent(2),
      SequentialEvent(<<NoteLikeWithText(<<Pitch(64)>>, 1, 5, <<>>, "o"),
                        SimpleEvent(1), SimpleEvent(2)>>),
      SequentialEvent(<<NoteLikeWithText(<<>>, 1, 10, <<>>, ""), SimpleEvent(2)>>),
      SequentialEvent(<<SimpleEvent(1),
                        SimultaneousEvent(<<SimpleEvent(1), SimpleEvent(2)>>)>>),
      SimultaneousEvent(<<SimpleEvent(1), SimpleEvent(2)>>) }

-----------------------------------------------------------------------------
(* IsisScoreConverter *)

\* _extracted_data_dict_rest; the sentinel pitch WesternPitch("c", -1, ...)
\* has midi_pitch_number 0.0
extracted_data_dict_rest ==
    [consonant_tuple |-> <<>>, vowel |-> "_",
     pitch |-> Pitch(0), volume |-> DirectVolume(0)]

\* Result of a call: a normal return of value, or the exception raised
Return(value) == [exc |-> "", value |-> value]

Raise(exception) == [exc |-> exception, value |-> <<>>]

\* getattr(event, name)
GetAttr(event, name) ==
    IF name \in event.has
    THEN Return(CASE name = "pitch_list" -> event.pitch_list
                  [] name = "volume" -> event.volume
                  [] name = "consonant_tuple" -> event.consonant_tuple
                  [] name = "vowel" -> event.vowel)
    ELSE Raise("AttributeError")

\* a variant of simple_event_to_pitch that takes the last pitch, pitch_list[-1]
simple_event_to_pitch_last(simple_event) ==
    LET pitch_list == GetAttr(simple_event, "pitch_list") IN
    IF pitch_list.exc # "" THEN pitch_list
    ELSE IF Len(pitch_list.value) = 0 THEN Raise("IndexError")
    ELSE Return(pitch_list.value[Len(pitch_list.value)])

\* default simple_event_to_pitch: simple_event.pitch_list[0]
simple_event_to_pitch(simple_event) ==
    LET pitch_list == GetAttr(simple_event, "pitch_list") IN
    IF pitch_list.exc # "" THEN pitch_list
    ELSE IF Len(pitch_list.value) = 0 THEN Raise("IndexError")
    ELSE Return(pitch_list.value[1])

\* default simple_event_to_volume: simple_event.volume
simple_event_to_volume(simple_event) == GetAttr(simple_event, "volume")

\* default simple_event_to_vowel: simple_event.vowel
simple_event_to_vowel(simple_event) == GetAttr(simple_event, "vowel")

\* default simple_event_to_consonant_tuple: simple_event.consonant_tuple
simple_event_to_consonant_tuple(simple_event) ==
    GetAttr(simple_event, "consonant_tuple")

\* default is_simple_event_rest:
\* not (hasattr(simple_event, "pitch_list") and simple_event.pitch_list)
is_simple_event_rest(simple_event) ==
    ~ ("pitch_list" \in simple_event.has /\ Len(simple_event.pitch_list) > 0)

\* keys of _extraction_function_dict, in insertion order
extraction_function_names == <<"consonant_tuple", "vowel", "pitch", "volume">>

\* _extraction_function_dict[name](simple_event)
extraction_function(name, simple_event) ==
    CASE name = "consonant_tuple" -> simple_event_to_consonant_tuple(simple_event)
      [] name = "vowel" -> simple_event_to_vowel(simple_event)
      [] name = "pitch" -> simple_event_to_pitch(simple_event)
      [] name = "volume" -> simple_event_to_volume(simple_event)

\* the except clause of _convert_simple_event: the exceptions it catches
IsCaught(exception) == exception = "AttributeError"

\* a variant of the loop whose fallback keeps what was extracted so far and
\* fills only the missing fields from the rest record
RECURSIVE convert_simple_event_loop_mixed(_, _, _)
convert_simple_event_loop_mixed(simple_event_to_convert, extracted_data_dict, i) ==
    IF i > Len(extraction_function_names)
    THEN Return(<<extracted_data_dict>>)
    ELSE
        LET extracted_data_name == extraction_function_names[i]
            extracted_information ==
                extraction_function(extracted_data_name, simple_event_to_convert)
        IN  IF extracted_information.exc # ""
            THEN IF IsCaught(extracted_information.exc)
                 THEN Return(<<extracted_data_dict @@ extracted_data_dict_rest>>)
                 ELSE Raise(extracted_information.exc)
            ELSE convert_simple_event_loop_mixed(
                     simple_event_to_convert,
                     (extracted_data_name :> extracted_information.value)
                         @@ extracted_data_dict,
                     i + 1)

\* the loop of _convert_simple_event from the i-th extraction function on,
\* with the dict built so far
RECURSIVE convert_simple_event_loop(_, _, _)
convert_simple_event_loop(simple_event_to_convert, extracted_data_dict, i) ==
    IF i > Len(extraction_function_names)
    THEN Return(<<extracted_data_dict>>)
    ELSE
        LET extracted_data_name == extraction_function_names[i]
            extracted_information ==
                extraction_function(extracted_data_name, simple_event_to_convert)
        IN  IF extracted_information.exc # ""
            THEN IF IsCaught(extracted_information.exc)
                 THEN Return(<<[duration |-> simple_event_to_convert.duration]
                               @@ extracted_data_dict_rest>>)
                 ELSE Raise(extracted_information.exc)
            ELSE convert_simple_event_loop(
                     simple_event_to_convert,
                     (extracted_data_name :> extracted_information.value)
                         @@ extracted_data_dict,
                     i + 1)

\* _convert_simple_event
convert_simple_event(simple_event_to_convert) ==
    convert_simple_event_loop(
        simple_event_to_convert,
        [duration |-> simple_event_to_convert.duration], 1)

\* _convert_simultaneous_event
convert_simultaneous_event(event) == Raise("NotImplementedError")

\* EventConverter._convert_event: dispatch on the event's class; a
\* sequential event is converted child by child, the results concatenated
\* (the first exception ends the conversion)
RECURSIVE convert_event(_)
RECURSIVE convert_sequential_event(_, _)
convert_sequential_event(events, i) ==
    IF i > Len(events) THEN Return(<<>>)
    ELSE
        LET head == convert_event(events[i]) IN
        IF head.exc # "" THEN head
        ELSE
            LET rest == convert_sequential_event(events, i + 1) IN
            IF rest.exc # "" THEN rest
            ELSE Return(head.value \o rest.value)

convert_event(event) ==
    CASE event.kind = "SequentialEvent" -> convert_sequential_event(event.events, 1)
      [] event.kind = "SimultaneousEvent" -> convert_simultaneous_event(event)
      [] event.kind = "SimpleEvent" -> convert_simple_event(event)

\* a variant of the condition that ties when either event is a rest
tie_condition_either(event0, event1) ==
    is_simple_event_rest(event0) \/ is_simple_event_rest(event1)

\* the condition convert passes to tie_by
tie_condition(event0, event1) ==
    is_simple_event_rest(event0) /\ is_simple_event_rest(event1)

\* a variant that lets tie_by work on the caller's object
tie_mutate_in_place == TRUE

\* the mutate argument convert passes to tie_by
tie_mutate == FALSE

\* ComplexEvent.tie_by(condition, event_type_to_examine=SimpleEvent) on a
\* list of child events: walk the neighbouring pairs; where both are simple
\* events and the condition holds, the first survives with the summed
\* duration and the second is deleted, and the same position is examined
\* again; a complex child is tied recursively.
RECURSIVE tie_events(_, _)
RECURSIVE tie_by_if_available(_)
tie_events(events, pointer) ==
    IF pointer + 1 > Len(events)
    THEN IF Len(events) > 0 /\ ~ IsSimpleEvent(events[Len(events)])
         THEN [events EXCEPT ![Len(events)] = tie_by_if_available(@)]
         ELSE events
    ELSE
        LET event0 == events[pointer]
            event1 == events[pointer + 1]
        IN  IF IsSimpleEvent(event0) /\ IsSimpleEvent(event1)
            THEN IF tie_condition(event0, event1)
                 THEN tie_events(
                          SubSeq(events, 1, pointer - 1)
                              \o <<[event0 EXCEPT !.duration = event1.duration + @]>>
                              \o SubSeq(events, pointer + 2, Len(events)),
                          pointer)
                 ELSE tie_events(events, pointer + 1)
            ELSE tie_events(
                     [events EXCEPT ![pointer] = tie_by_if_available(@)],
                     pointer + 1)

tie_by_if_available(event) ==
    IF IsComplexEvent(event)
    THEN [event EXCEPT !.events = tie_events(@, 1)]
    ELSE event

\* event.tie_by(..., mutate=mutate): what becomes of the object it is called
\* on (self) and the object it returns (result); without mutate it works on
\* a deep copy
tie_by(event, mutate) ==
    LET tied == tie_by_if_available(event) IN
    [self |-> IF mutate THEN tied ELSE event, result |-> tied]

-----------------------------------------------------------------------------
(* configparser.ConfigParser(delimiters=":"): a list of sections, each a   *)
(* name and a list of <<key, value>> items                                 *)

\* config[name] = items: the section is replaced, or added at the end
SetSection(config, name, items) ==
    IF \E i \in 1..Len(config) : config[i].name = name
    THEN [i \in 1..Len(config) |->
            IF config[i].name = name THEN [name |-> name, items |-> items]
            ELSE config[i]]
    ELSE Append(config, [name |-> name, items |-> items])

\* the lines ConfigParser.write emits for one section
SectionLines(section) ==
    <<"[" \o section.name \o "]">>
    \o [i \in 1..Len(section.items) |->
          section.items[i][1] \o " : " \o section.items[i][2]]
    \o <<"">>

\* ConfigParser.write: the lines of all sections
RECURSIVE ConfigLines(_)
ConfigLines(config) ==
    IF config = <<>> THEN <<>>
    ELSE SectionLines(Head(config)) \o ConfigLines(Tail(config))

\* the value _add_lyric_section stores under xsampa
xsampa(extracted_data_dict_per_event_tuple) ==
    Join([i \in 1..Len(extracted_data_dict_per_event_tuple) |->
            Join(extracted_data_dict_per_event_tuple[i].consonant_tuple
                     \o <<extracted_data_dict_per_event_tuple[i].vowel>>, " ")],
         " ")

\* _add_lyric_section
add_lyric_section(config, extracted_data_dict_per_event_tuple) ==
    SetSection(config, SECTION_LYRIC_NAME,
               <<<<OptionXForm("xsampa"), xsampa(extracted_data_dict_per_event_tuple)>>>>)

\* the three lambda functions of _add_score_section
midiNotes(extracted_data) == StrFloat(extracted_data.pitch.midi_pitch_number)

rhythm(extracted_data) == StrInt(extracted_data.duration)

loud_accents(extracted_data) == StrAmplitude(extracted_data.volume.amplitude)

\* a variant of the joined list that leaves the rest records out
score_list_without_rests(parameter_name, extracted_data_dict_per_event_tuple) ==
    LET sounding == SelectSeq(extracted_data_dict_per_event_tuple,
                              LAMBDA extracted_data : extracted_data.vowel # "_")
    IN  Join([i \in 1..Len(sounding) |->
                CASE parameter_name = "midiNotes" -> midiNotes(sounding[i])
                  [] parameter_name = "rhythm" -> rhythm(sounding[i])
                  [] parameter_name = "loud_accents" -> loud_accents(sounding[i])],
             ", ")

\* ", ".join(map(lambda_function, extracted_data_dict_per_event_tuple))
score_list(parameter_name, extracted_data_dict_per_event_tuple) ==
    Join([i \in 1..Len(extracted_data_dict_per_event_tuple) |->
            CASE parameter_name = "midiNotes" ->
                     midiNotes(extracted_data_dict_per_event_tuple[i])
              [] parameter_name = "rhythm" ->
                     rhythm(extracted_data_dict_per_event_tuple[i])
              [] parameter_name = "loud_accents" ->
                     loud_accents(extracted_data_dict_per_event_tuple[i])],
         ", ")

\* _add_score_section
add_score_section(config, converter, extracted_data_dict_per_event_tuple) ==
    SetSection(config, SECTION_SCORE_NAME,
        << <<OptionXForm("globalTransposition"), StrInt(converter.global_transposition)>>,
           <<OptionXForm("tempo"), StrInt(converter.tempo)>>,
           <<OptionXForm("midiNotes"),
             score_list("midiNotes", extracted_data_dict_per_event_tuple)>>,
           <<OptionXForm("rhythm"),
             score_list("rhythm", extracted_data_dict_per_event_tuple)>>,
           <<OptionXForm("loud_accents"),
             score_list("loud_accents", extracted_data_dict_per_event_tuple)>> >>)

-----------------------------------------------------------------------------
(* Files *)

NoFile == [exists |-> FALSE, lines |-> <<>>]

\* a variant that opens for appending, open(path, "a")
open_a(file) == [file EXCEPT !.exists = TRUE]

\* open(path, "w"): the file is created, or truncated if it exists
open_w(file) == [exists |-> TRUE, lines |-> <<>>]

\* f.write(...) of the given lines, then close
write_lines(file, lines) == [file EXCEPT !.lines = @ \o lines]

\* the file the external tool leaves at the output path
RenderedAudio == [exists |-> TRUE, lines |-> <<"RIFF">>]

\* output paths of IsisConverter.convert calls
OutPaths == {"a"}

\* output paths of IsisConverter.convert calls that run at the same time
ConcurrentOutPaths == {"a", "b"}

\* a variant that names one score file whatever the output path
ScorePathOf_shared(output_path) == "a.isis_score"

\* f"{path}.isis_score"
ScorePathOf(output_path) == output_path \o ".isis_score"

\* paths IsisScoreConverter.convert is called with directly
ScorePaths == {"a.isis_score"}

Paths ==
    OutPaths \cup ConcurrentOutPaths \cup ScorePaths
    \cup {ScorePathOf(q) : q \in OutPaths \cup ConcurrentOutPaths}

-----------------------------------------------------------------------------
(* IsisConverter *)

\* the command IsisConverter.convert builds
RECURSIVE add_flags(_, _)
add_flags(command, flags) ==
    IF flags = <<>> THEN command
    ELSE add_flags(command \o " " \o Head(flags) \o " ", Tail(flags))

build_command(output_path, the_score_path, flags) ==
    add_flags(ISIS_PATH \o " -m " \o the_score_path \o " -o " \o output_path, flags)

\* a variant that removes the score file whatever the configuration
shall_remove_always(converter) == TRUE

\* if self.remove_score_file
shall_remove(converter) == converter.remove_score_file

\* exit statuses of os.system: success, the tool failed, the tool could not
\* be started
ExitStatuses == {0, 256, 32512}

\* converter objects: tempo and global_transposition of the
\* IsisScoreConverter, flags and remove_score_file of the IsisConverter
ScoreConverters ==
    { [tempo |-> 60, global_transposition |-> 0,
       flags |-> <<>>, remove_score_file |-> FALSE],
      [tempo |-> 120, global_transposition |-> 2,
       flags |-> <<>>, remove_score_file |-> FALSE] }

IsisConverters ==
    { [tempo |-> 60, global_transposition |-> 0, flags |-> f, remove_score_file |-> r] :
        f \in {<<>>, <<"--sv", SILENT_FLAG>>}, r \in BOOLEAN }

-----------------------------------------------------------------------------
(* The state machine *)

NoEvent == [kind |-> "None"]

NoInvocation == [command |-> "", score_seen |-> NoFile, called |-> FALSE, status |-> 0]

Init ==
    /\ fs = [q \in Paths |-> NoFile]
    /\ ncalls = 0
    /\ pc = [p \in Procs |-> IF p = 1 THEN "idle" ELSE "off"]
    /\ entry = [p \in Procs |-> ""]
    /\ conv = [p \in Procs |-> CHOOSE c \in ScoreConverters : c.tempo = 60]
    /\ caller_event = [p \in Procs |-> NoEvent]
    /\ path = [p \in Procs |-> ""]
    /\ score_path = [p \in Procs |-> ""]
    /\ event_to_convert = [p \in Procs |-> NoEvent]
    /\ extracted = [p \in Procs |-> <<>>]
    /\ score_config_file = [p \in Procs |-> <<>>]
    /\ invoked = [p \in Procs |-> NoInvocation]
    /\ trace = [p \in Procs |-> <<>>]
    /\ exc = [p \in Procs |-> ""]

\* the caller p holds no running call
CanCall(p) == pc[p] \in {"idle", "returned", "raised"}

\* entering a convert call: the arguments are bound, the locals are fresh
Enter(p, api, converter, event, output_path, the_score_path) ==
    /\ ncalls' = ncalls + 1
    /\ pc' = [pc EXCEPT ![p] = "tie"]
    /\ entry' = [entry EXCEPT ![p] = api]
    /\ conv' = [conv EXCEPT ![p] = converter]
    /\ caller_event' = [caller_event EXCEPT ![p] = event]
    /\ path' = [path EXCEPT ![p] = output_path]
    /\ score_path' = [score_path EXCEPT ![p] = the_score_path]
    /\ event_to_convert' = [event_to_convert EXCEPT ![p] = event]
    /\ extracted' = [extracted EXCEPT ![p] = <<>>]
    /\ score_config_file' = [score_config_file EXCEPT ![p] = <<>>]
    /\ invoked' = [invoked EXCEPT ![p] = NoInvocation]
    /\ trace' = [trace EXCEPT ![p] = <<>>]
    /\ exc' = [exc EXCEPT ![p] = ""]
    /\ UNCHANGED fs

\* IsisScoreConverter.convert(event, path) is called
ScoreConvertCall(p, events) ==
    /\ CanCall(p)
    /\ \E event \in events, converter \in ScoreConverters, q \in ScorePaths :
           Enter(p, "score", converter, event, q, q)

\* IsisConverter.convert(event, path) is called: it names the score file
\* and calls IsisScoreConverter.convert(event, score_path)
IsisConvertCall(p, events) ==
    /\ CanCall(p)
    /\ \E event \in events, converter \in IsisConverters, q \in OutPaths :
           Enter(p, "isis", converter, event, q, ScorePathOf(q))

\* IsisScoreConverter.convert: the rest-merge pass
TieStep(p) ==
    /\ pc[p] = "tie"
    /\ IF IsComplexEvent(event_to_convert[p])
       THEN LET tied == tie_by(event_to_convert[p], tie_mutate) IN
            /\ caller_event' = [caller_event EXCEPT ![p] = tied.self]
            /\ event_to_convert' = [event_to_convert EXCEPT ![p] = tied.result]
       ELSE UNCHANGED <<caller_event, event_to_convert>>
    /\ pc' = [pc EXCEPT ![p] = "convert_event"]
    /\ UNCHANGED <<fs, ncalls, entry, conv, path, score_path, extracted,
                   score_config_file, invoked, trace, exc>>

\* IsisScoreConverter.convert: self._convert_event(event_to_convert, 0), and
\* the new ConfigParser if it returns
ConvertEventStep(p) ==
    /\ pc[p] = "convert_event"
    /\ LET result == convert_event(event_to_convert[p]) IN
       IF result.exc # ""
       THEN /\ pc' = [pc EXCEPT ![p] = "raised"]
            /\ exc' = [exc EXCEPT ![p] = result.exc]
            /\ UNCHANGED extracted
       ELSE /\ pc' = [pc EXCEPT ![p] = "add_lyric_section"]
            /\ extracted' = [extracted EXCEPT ![p] = result.value]
            /\ UNCHANGED exc
    /\ UNCHANGED <<fs, ncalls, entry, conv, caller_event, path, score_path,
                   event_to_convert, score_config_file, invoked, trace>>

\* IsisScoreConverter.convert: self._add_lyric_section(...)
AddLyricSectionStep(p) ==
    /\ pc[p] = "add_lyric_section"
    /\ score_config_file' = [score_config_file EXCEPT ![p] =
                                add_lyric_section(@, extracted[p])]
    /\ pc' = [pc EXCEPT ![p] = "add_score_section"]
    /\ UNCHANGED <<fs, ncalls, entry, conv, caller_event, path, score_path,
                   event_to_convert, extracted, invoked, trace, exc>>

\* IsisScoreConverter.convert: self._add_score_section(...)
AddScoreSectionStep(p) ==
    /\ pc[p] = "add_score_section"
    /\ score_config_file' = [score_config_file EXCEPT ![p] =
                                add_score_section(@, conv[p], extracted[p])]
    /\ pc' = [pc EXCEPT ![p] = "open"]
    /\ UNCHANGED <<fs, ncalls, entry, conv, caller_event, path, score_path,
                   event_to_convert, extracted, invoked, trace, exc>>

\* IsisScoreConverter.convert: open(path, "w")
OpenStep(p) ==
    /\ pc[p] = "open"
    /\ fs' = [fs EXCEPT ![score_path[p]] = open_w(@)]
    /\ trace' = [trace EXCEPT ![p] =
                    Append(@, IF fs[score_path[p]].exists THEN "truncate" ELSE "create")]
    /\ pc' = [pc EXCEPT ![p] = "write"]
    /\ UNCHANGED <<ncalls, entry, conv, caller_event, path, score_path,
                   event_to_convert, extracted, score_config_file, invoked, exc>>

\* where a call continues once the score file is written
after_write(api) == IF api = "isis" THEN "system" ELSE "returned"

\* IsisScoreConverter.convert: score_config_file.write(f), the file is
\* closed and convert returns
WriteStep(p) ==
    /\ pc[p] = "write"
    /\ fs' = [fs EXCEPT ![score_path[p]] =
                 write_lines(@, ConfigLines(score_config_file[p]))]
    /\ trace' = [trace EXCEPT ![p] = Append(@, "write")]
    /\ pc' = [pc EXCEPT ![p] = after_write(entry[p])]
    /\ UNCHANGED <<ncalls, entry, conv, caller_event, path, score_path,
                   event_to_convert, extracted, score_config_file, invoked, exc>>

\* a variant that raises when the exit status is not zero
after_system_checked(converter, status) ==
    IF status # 0 THEN "raised"
    ELSE IF shall_remove(converter) THEN "remove" ELSE "returned"

\* where IsisConverter.convert continues once os.system has returned the
\* exit status: the status is dropped
after_system(converter, status) ==
    IF shall_remove(converter) THEN "remove" ELSE "returned"

\* IsisConverter.convert: the command is built and os.system(command) runs
\* it to its end; the exit status is not looked at.  The tool, when it
\* succeeds, leaves the rendered file at the output path.
OsSystemStep(p) ==
    /\ pc[p] = "system"
    /\ \E status \in ExitStatuses :
           /\ fs' = IF status = 0 THEN [fs EXCEPT ![path[p]] = RenderedAudio] ELSE fs
           /\ invoked' = [invoked EXCEPT ![p] =
                             [command |-> build_command(path[p], score_path[p],
                                                        conv[p].flags),
                              score_seen |-> fs[score_path[p]],
                              called |-> TRUE,
                              status |-> status]]
           /\ pc' = [pc EXCEPT ![p] = after_system(conv[p], status)]
    /\ trace' = [trace EXCEPT ![p] = Append(@, "system")]
    /\ UNCHANGED <<ncalls, entry, conv, caller_event, path, score_path,
                   event_to_convert, extracted, score_config_file, exc>>

\* IsisConverter.convert: os.remove(score_path)
OsRemoveStep(p) ==
    /\ pc[p] = "remove"
    /\ IF fs[score_path[p]].exists
       THEN /\ fs' = [fs EXCEPT ![score_path[p]] = NoFile]
            /\ trace' = [trace EXCEPT ![p] = Append(@, "remove")]
            /\ pc' = [pc EXCEPT ![p] = "returned"]
            /\ UNCHANGED exc
       ELSE /\ pc' = [pc EXCEPT ![p] = "raised"]
            /\ exc' = [exc EXCEPT ![p] = "FileNotFoundError"]
            /\ UNCHANGED <<fs, trace>>
    /\ UNCHANGED <<ncalls, entry, conv, caller_event, path, score_path,
                   event_to_convert, extracted, score_config_file, invoked>>

\* the steps of IsisScoreConverter.convert
ScoreSteps(p) ==
    \/ TieStep(p)
    \/ ConvertEventStep(p)
    \/ AddLyricSectionStep(p)
    \/ AddScoreSectionStep(p)
    \/ OpenStep(p)
    \/ WriteStep(p)

\* Calls one after the other, through both converters, with a few events
Next ==
    \E p \in Procs :
        \/ ncalls < MaxCalls /\ ScoreConvertCall(p, FewEvents)
        \/ ncalls < MaxCalls /\ IsisConvertCall(p, FewEvents)
        \/ ScoreSteps(p)
        \/ OsSystemStep(p)
        \/ OsRemoveStep(p)

Spec == Init /\ [][Next]_vars

\* One IsisScoreConverter.convert call, with every event of Events
NextScore ==
    \E p \in Procs :
        \/ ncalls = 0 /\ ScoreConvertCall(p, Events)
        \/ ScoreSteps(p)

SpecScore == Init /\ [][NextScore]_vars

\* The events and converters of the calls that run at the same time: a
\* note or a rest, the score file kept or removed
ConcurrentEvents ==
    { NoteLikeWithText(<<Pitch(60)>>, 2, 5, <<"t">>, "a"),
      SimpleEvent(2) }

ConcurrentConverters ==
    { [tempo |-> 60, global_transposition |-> 0, flags |-> <<>>,
       remove_score_file |-> r] : r \in BOOLEAN }

\* two callers, none of them in a call yet
InitConcurrent ==
    /\ fs = [q \in Paths |-> NoFile]
    /\ ncalls = 0
    /\ pc = [p \in Procs |-> "idle"]
    /\ entry = [p \in Procs |-> ""]
    /\ conv = [p \in Procs |-> CHOOSE c \in ScoreConverters : c.tempo = 60]
    /\ caller_event = [p \in Procs |-> NoEvent]
    /\ path = [p \in Procs |-> ""]
    /\ score_path = [p \in Procs |-> ""]
    /\ event_to_convert = [p \in Procs |-> NoEvent]
    /\ extracted = [p \in Procs |-> <<>>]
    /\ score_config_file = [p \in Procs |-> <<>>]
    /\ invoked = [p \in Procs |-> NoInvocation]
    /\ trace = [p \in Procs |-> <<>>]
    /\ exc = [p \in Procs |-> ""]

\* IsisConverter.convert(event, path) is called by a caller that runs
\* beside another one
ConcurrentIsisConvertCall(p) ==
    /\ pc[p] = "idle"
    /\ \E event \in ConcurrentEvents, converter \in ConcurrentConverters,
          q \in ConcurrentOutPaths :
           Enter(p, "isis", converter, event, q, ScorePathOf(q))

\* Two callers, one IsisConverter.convert call each, their steps interleaved
NextConcurrent ==
    \E p \in Procs :
        \/ ConcurrentIsisConvertCall(p)
        \/ ScoreSteps(p)
        \/ OsSystemStep(p)
        \/ OsRemoveStep(p)

SpecConcurrent == InitConcurrent /\ [][NextConcurrent]_vars

-----------------------------------------------------------------------------
(* Reading the state for the properties *)

\* the call of p is past self._convert_event(...) and holds the records
HasRecords(p) ==
    pc[p] \in {"add_lyric_section", "add_score_section", "open", "write",
               "system", "remove", "returned"}

\* the call of p is past self._convert_event(...), which returned or raised
PastConversion(p) == HasRecords(p) \/ (pc[p] = "raised" /\ trace[p] = <<>>)

\* the child events of a sequential event; a simple event stands for itself
ChildrenOf(event) ==
    IF event.kind = "SimpleEvent" THEN <<event>>
    ELSE event.events

\* a simple event, or a sequential event of simple events only
IsMonophonic(event) ==
    /\ event.kind \in {"SimpleEvent", "SequentialEvent"}
    /\ \A i \in 1..Len(ChildrenOf(event)) : ChildrenOf(event)[i].kind = "SimpleEvent"

\* the canonical rest record of the given duration
RestRecord(duration) ==
    [duration |-> duration, consonant_tuple |-> <<>>, vowel |-> "_",
     pitch |-> [midi_pitch_number |-> 0], volume |-> [amplitude |-> 0]]

\* sum of the durations of events[i..j]
RECURSIVE SumDurations(_, _, _)
SumDurations(events, i, j) ==
    IF i > j THEN 0 ELSE events[i].duration + SumDurations(events, i + 1, j)

\* the last index of the run of rests that starts at i
RECURSIVE RunEnd(_, _)
RunEnd(events, i) ==
    IF i < Len(events) /\ is_simple_event_rest(events[i + 1])
    THEN RunEnd(events, i + 1)
    ELSE i

\* the durations the records are to have: one per maximal run of rests
\* (the sum of the run), one per other event (its own)
RECURSIVE MergedDurations(_, _)
MergedDurations(events, i) ==
    IF i > Len(events) THEN <<>>
    ELSE IF is_simple_event_rest(events[i])
    THEN <<SumDurations(events, i, RunEnd(events, i))>>
         \o MergedDurations(events, RunEnd(events, i) + 1)
    ELSE <<events[i].duration>> \o MergedDurations(events, i + 1)

\* the lines of a score file read back: sections of <<key, value>> items,
\* a value being the text after the first " : " of its line, as written
RECURSIVE ReadLines(_, _)
ReadLines(lines, config) ==
    IF lines = <<>> THEN config
    ELSE
        LET line == Head(lines) IN
        IF line = "" THEN ReadLines(Tail(lines), config)
        ELSE IF StartsWith(line, "[")
        THEN ReadLines(Tail(lines),
                       Append(config, [name |-> SubSeq(line, 2, Len(line) - 1),
                                       items |-> <<>>]))
        ELSE
            LET parts == Split(line, " : ")
                item == <<parts[1], Join(Tail(parts), " : ")>>
            IN  ReadLines(Tail(lines),
                          [config EXCEPT ![Len(config)].items = Append(@, item)])

ReadConfig(file) == ReadLines(file.lines, <<>>)

\* the value of key in the section name of a score file ("" if there is none)
ValueOf(file, name, key) ==
    LET config == ReadConfig(file)
        found == {<<i, j>> \in (1..Len(config)) \X (1..5) :
                     /\ config[i].name = name
                     /\ j <= Len(config[i].items)
                     /\ config[i].items[j][1] = key}
    IN  IF found = {} THEN ""
        ELSE LET ij == CHOOSE ij \in found : TRUE IN config[ij[1]].items[ij[2]][2]

\* the score file of the call of p
ScoreFile(p) == fs[score_path[p]]

\* the elements of a comma-and-space-joined list
ListOf(value) == Split(value, ", ")

\* the tokens of a space-joined string (an empty token for an empty string)
TokensOf(value) == Split(value, " ")

\* the tokens a record stands for: its consonants, then its vowel
RecordTokens(record) == record.consonant_tuple \o <<record.vowel>>

RECURSIVE AllTokens(_)
AllTokens(records) ==
    IF records = <<>> THEN <<>>
    ELSE RecordTokens(Head(records)) \o AllTokens(Tail(records))

-----------------------------------------------------------------------------
(* Properties *)

\* the durations of the records of the call of p
RecordDurations(p) == [i \in 1..Len(extracted[p]) |-> extracted[p][i].duration]

\* C1: convert on a sequential event of simple events yields, in order, one
\* record per maximal run of rests with the summed duration of the run, and
\* one record per other event with its own duration.
C1_MergedRunsBecomeOneRecord ==
    \A p \in Procs :
        (/\ PastConversion(p)
         /\ caller_event[p].kind = "SequentialEvent"
         /\ IsMonophonic(caller_event[p]))
        => /\ HasRecords(p)
           /\ RecordDurations(p) = MergedDurations(caller_event[p].events, 1)

\* C2: with the default extraction functions every event the rest predicate
\* classifies as a rest is converted to the canonical rest record with the
\* event's duration, whatever other attributes it carries.
C2_RestBecomesCanonicalRest ==
    \A p \in Procs :
        (PastConversion(p) /\ IsMonophonic(event_to_convert[p]))
        => \A i \in 1..Len(ChildrenOf(event_to_convert[p])) :
               LET event == ChildrenOf(event_to_convert[p])[i] IN
               is_simple_event_rest(event)
               => /\ HasRecords(p)
                  /\ extracted[p][i] = RestRecord(event.duration)

\* the first extraction function, in the order of application, that raises
\* for the event (0 if none raises)
FirstRaising(event) ==
    LET raising == {i \in 1..Len(extraction_function_names) :
                       extraction_function(extraction_function_names[i], event).exc # ""}
    IN  IF raising = {} THEN 0
        ELSE CHOOSE i \in raising : \A j \in raising : i <= j

\* the record that holds exactly the four extracted values and the duration
ExtractedRecord(event) ==
    [duration |-> event.duration,
     consonant_tuple |-> event.consonant_tuple,
     vowel |-> event.vowel,
     pitch |-> event.pitch_list[1],
     volume |-> event.volume]

\* C3: the fallback of _convert_simple_event is all-or-nothing: when an
\* extraction function raises AttributeError the record is the canonical
\* rest record with the event's duration, when none raises it holds the
\* four extracted values and the duration; no record mixes the two.
C3_FallbackIsAllOrNothing ==
    \A p \in Procs :
        (HasRecords(p) /\ IsMonophonic(event_to_convert[p]))
        => \A i \in 1..Len(ChildrenOf(event_to_convert[p])) :
               LET event == ChildrenOf(event_to_convert[p])[i]
                   first == FirstRaising(event)
               IN  /\ i <= Len(extracted[p])
                   /\ first = 0 => extracted[p][i] = ExtractedRecord(event)
                   /\ (/\ first # 0
                       /\ extraction_function(extraction_function_names[first],
                                              event).exc = "AttributeError")
                      => extracted[p][i] = RestRecord(event.duration)
                   /\ \/ extracted[p][i] = RestRecord(event.duration)
                      \/ first = 0 /\ extracted[p][i] = ExtractedRecord(event)

\* C3 witness: an event whose consonants and vowel were extracted and whose
\* volume is missing has become the canonical rest record.
C3_Witness ==
    \E p \in Procs :
        /\ HasRecords(p)
        /\ IsMonophonic(event_to_convert[p])
        /\ \E i \in 1..Len(ChildrenOf(event_to_convert[p])) :
               LET event == ChildrenOf(event_to_convert[p])[i] IN
               /\ FirstRaising(event) = 4
               /\ event.consonant_tuple # <<>>
               /\ extracted[p][i] = RestRecord(event.duration)

\* the number of tokens the records stand for
RECURSIVE TokenCount(_)
TokenCount(records) ==
    IF records = <<>> THEN 0
    ELSE Len(RecordTokens(Head(records))) + TokenCount(Tail(records))

\* C4: once convert has written the file, there is one record per event of
\* the merged sequence, midiNotes, rhythm and loud_accents each list that
\* many elements, and xsampa holds the tokens of one group per record.
C4_CountsAgree ==
    \A p \in Procs :
        (pc[p] = "returned" /\ entry[p] = "score")
        => LET n == Len(ChildrenOf(event_to_convert[p])) IN
           /\ Len(extracted[p]) = n
           /\ Len(ListOf(ValueOf(ScoreFile(p), SECTION_SCORE_NAME, "midinotes"))) = n
           /\ Len(ListOf(ValueOf(ScoreFile(p), SECTION_SCORE_NAME, "rhythm"))) = n
           /\ Len(ListOf(ValueOf(ScoreFile(p), SECTION_SCORE_NAME, "loud_accents"))) = n
           /\ Len(TokensOf(ValueOf(ScoreFile(p), SECTION_LYRIC_NAME, "xsampa")))
                  = TokenCount(extracted[p])
           /\ TokenCount(extracted[p]) >= n

\* C4 witness: a written score of three records, one a rest, one with an
\* empty vowel and an empty consonant tuple.
C4_Witness ==
    \E p \in Procs :
        /\ pc[p] = "returned"
        /\ entry[p] = "score"
        /\ Len(extracted[p]) = 3
        /\ \E i \in 1..3 : extracted[p][i].vowel = "_"
        /\ \E i \in 1..3 : /\ extracted[p][i].vowel = ""
                           /\ extracted[p][i].consonant_tuple = <<>>

\* the event holds a simultaneous event, itself or as a child
IsPolyphonic(event) ==
    \/ event.kind = "SimultaneousEvent"
    \/ /\ event.kind = "SequentialEvent"
       /\ \E i \in 1..Len(event.events) : event.events[i].kind = "SimultaneousEvent"

\* C5: convert on a polyphonic event fails with the unsupported-shape error
\* (NotImplementedError) before the score file is opened.
C5_PolyphonicRaisesUnsupported ==
    \A p \in Procs :
        (PastConversion(p) /\ IsPolyphonic(caller_event[p]))
        => /\ pc[p] = "raised"
           /\ exc[p] = "NotImplementedError"
           /\ trace[p] = <<>>

\* C6: convert never mutates the caller's event: while a call runs, no
\* step changes the event object the caller passed.
C6_CallerEventUntouched ==
    [][\A p \in Procs : ~ CanCall(p) => caller_event'[p] = caller_event[p]]_vars

\* C6 witness: a call has returned whose rest-merge pass produced a sequence
\* that differs from the caller's.
C6_Witness ==
    \E p \in Procs :
        /\ pc[p] = "returned"
        /\ event_to_convert[p] # caller_event[p]

\* no two neighbouring simple events of the event are both rests, at any depth
RECURSIVE NoAdjacentRests(_)
NoAdjacentRests(event) ==
    IF ~ IsComplexEvent(event) THEN TRUE
    ELSE /\ \A i \in 1..(Len(event.events) - 1) :
                ~ (/\ IsSimpleEvent(event.events[i])
                   /\ IsSimpleEvent(event.events[i + 1])
                   /\ is_simple_event_rest(event.events[i])
                   /\ is_simple_event_rest(event.events[i + 1]))
         /\ \A i \in 1..Len(event.events) : NoAdjacentRests(event.events[i])

\* the call of p is past the rest-merge pass
PastTie(p) == pc[p] \notin {"off", "idle", "tie"}

\* C7: the rest-merge pass is idempotent: its output has no two adjacent
\* rests and is left identical by a second pass, and an input without two
\* adjacent rests comes out identical.
C7_RestMergeIdempotent ==
    \A p \in Procs :
        (PastTie(p) /\ IsComplexEvent(caller_event[p]))
        => /\ NoAdjacentRests(event_to_convert[p])
           /\ tie_by(event_to_convert[p], FALSE).result = event_to_convert[p]
           /\ NoAdjacentRests(caller_event[p])
              => event_to_convert[p] = caller_event[p]

\* C7 witness: the pass has run on a sequence of several events, a rest
\* among them, that has no two adjacent rests.
C7_Witness ==
    \E p \in Procs :
        /\ pc[p] = "convert_event"
        /\ caller_event[p].kind = "SequentialEvent"
        /\ Len(caller_event[p].events) >= 2
        /\ IsMonophonic(caller_event[p])
        /\ NoAdjacentRests(caller_event[p])
        /\ \E i \in 1..Len(caller_event[p].events) :
               is_simple_event_rest(caller_event[p].events[i])

\* s is a prefix of t
IsPrefix(s, t) == Len(s) <= Len(t) /\ SubSeq(t, 1, Len(s)) = s

\* the words a shell splits the command into
ShellWords(command) == SelectSeq(Split(command, " "), LAMBDA w : w # "")

\* the side effects of a complete IsisConverter.convert call after the
\* score file is opened
StepsAfterOpen(p) ==
    <<"write", "system">> \o (IF conv[p].remove_score_file THEN <<"remove">> ELSE <<>>)

\* C8: IsisConverter.convert writes the score file to <path>.isis_score,
\* then runs "<ISIS_PATH> -m <score_path> -o <path>" and the flags in
\* order exactly once, on the written score file, and only then deletes the
\* score file, which it does exactly when remove_score_file is True.
C8_StepsInOrder ==
    \A p \in Procs :
        (entry[p] = "isis" /\ ~ pc[p] \in {"off", "idle"})
        => /\ score_path[p] = path[p] \o ".isis_score"
           /\ trace[p] # <<>>
              => /\ trace[p][1] \in {"create", "truncate"}
                 /\ IsPrefix(Tail(trace[p]), StepsAfterOpen(p))
           /\ pc[p] = "returned"
              => /\ Tail(trace[p]) = StepsAfterOpen(p)
                 /\ ScoreFile(p).exists <=> ~ conv[p].remove_score_file
           /\ invoked[p].called
              => /\ ShellWords(invoked[p].command)
                        = <<ISIS_PATH, "-m", score_path[p], "-o", path[p]>>
                              \o conv[p].flags
                 /\ invoked[p].score_seen.exists
                 /\ ReadConfig(invoked[p].score_seen) = score_config_file[p]

\* C8 witness: a call with flags and remove_score_file has returned.
C8_Witness ==
    \E p \in Procs :
        /\ entry[p] = "isis"
        /\ pc[p] = "returned"
        /\ conv[p].remove_score_file
        /\ conv[p].flags # <<>>
        /\ invoked[p].called

\* C9: the written sections keep the order and content of the records:
\* xsampa is every record's consonants then vowel, space-joined; midiNotes
\* lists the midi number of each record's pitch (the first pitch of the
\* event's pitch list), rhythm the durations, loud_accents the amplitudes.
C9_SectionsKeepRecords ==
    \A p \in Procs :
        (pc[p] = "returned" /\ entry[p] = "score" /\ IsMonophonic(event_to_convert[p]))
        => LET events == ChildrenOf(event_to_convert[p])
               n == Len(events)
           IN  /\ TokensOf(ValueOf(ScoreFile(p), SECTION_LYRIC_NAME, "xsampa"))
                      = AllTokens(extracted[p])
               /\ ListOf(ValueOf(ScoreFile(p), SECTION_SCORE_NAME, "midinotes"))
                      = [i \in 1..n |->
                            IF FirstRaising(events[i]) = 0
                            THEN StrFloat(events[i].pitch_list[1].midi_pitch_number)
                            ELSE StrFloat(extracted[p][i].pitch.midi_pitch_number)]
               /\ ListOf(ValueOf(ScoreFile(p), SECTION_SCORE_NAME, "rhythm"))
                      = [i \in 1..n |-> StrInt(events[i].duration)]
               /\ ListOf(ValueOf(ScoreFile(p), SECTION_SCORE_NAME, "loud_accents"))
                      = [i \in 1..n |-> StrAmplitude(extracted[p][i].volume.amplitude)]
               /\ caller_event[p] = NoteLikeWithText(<<Pitch(60)>>, 2, 5, <<"t">>, "a")
                  => /\ ValueOf(ScoreFile(p), SECTION_LYRIC_NAME, "xsampa") = "t a"
                     /\ ValueOf(ScoreFile(p), SECTION_SCORE_NAME, "midinotes") = "60.0"
                     /\ ValueOf(ScoreFile(p), SECTION_SCORE_NAME, "rhythm") = "2"
                     /\ ValueOf(ScoreFile(p), SECTION_SCORE_NAME, "loud_accents") = "0.5"

\* C9 witness: a written score of several records, one of an event with two
\* pitches and two consonants.
C9_Witness ==
    \E p \in Procs :
        /\ pc[p] = "returned"
        /\ entry[p] = "score"
        /\ IsMonophonic(event_to_convert[p])
        /\ Len(extracted[p]) >= 2
        /\ \E i \in 1..Len(extracted[p]) :
               /\ Len(ChildrenOf(event_to_convert[p])[i].pitch_list) = 2
               /\ Len(extracted[p][i].consonant_tuple) = 2

\* the section names of a config
SectionNames(config) == [i \in 1..Len(config) |-> config[i].name]

\* the keys of a section
KeysOf(section) == [j \in 1..Len(section.items) |-> section.items[j][1]]

\* C10: the score file is created fresh by every successful convert call:
\* the step that finishes writing leaves exactly the two sections of this
\* call, with this call's keys and values and nothing else, and a call that
\* fails leaves every file as it was.
C10_ScoreFileIsFresh ==
    [][\A p \in Procs :
          /\ (pc'[p] = "raised" /\ pc[p] # "raised") => fs' = fs
          /\ (pc[p] = "write" /\ pc'[p] # "write")
             => LET file == fs'[score_path[p]]
                    config == ReadConfig(file)
                IN  /\ file.exists
                    /\ SectionNames(config) = <<SECTION_LYRIC_NAME, SECTION_SCORE_NAME>>
                    /\ KeysOf(config[1]) = <<"xsampa">>
                    /\ KeysOf(config[2]) = <<"globaltransposition", "tempo",
                                             "midinotes", "rhythm", "loud_accents">>
                    /\ config[2].items[1][2] = StrInt(conv[p].global_transposition)
                    /\ config[2].items[2][2] = StrInt(conv[p].tempo)
                    /\ Len(ListOf(config[2].items[4][2])) = Len(extracted[p])
                    /\ config = score_config_file[p]]_vars

\* C10 witness: a convert call has returned that found a file at its path
\* and wrote the score over it.
C10_Witness ==
    \E p \in Procs :
        /\ pc[p] = "returned"
        /\ entry[p] = "score"
        /\ trace[p] = <<"truncate", "write">>

\* the record is a silent one: lyric token "_" and the sentinel pitch
IsSilentRecord(record) ==
    /\ record.vowel = "_"
    /\ record.consonant_tuple = <<>>
    /\ record.pitch = extracted_data_dict_rest.pitch

\* C11: the score written for a sequential event never holds two adjacent
\* silent records.
C11_NoAdjacentSilentRecords ==
    \A p \in Procs :
        (/\ pc[p] = "returned"
         /\ entry[p] = "score"
         /\ caller_event[p].kind = "SequentialEvent")
        => \A i \in 1..(Len(extracted[p]) - 1) :
               ~ (IsSilentRecord(extracted[p][i]) /\ IsSilentRecord(extracted[p][i + 1]))

\* C12: the exit status of the external command is silent to the caller of
\* IsisConverter.convert: whatever it is, the call does not raise, goes on
\* to the cleanup, and returns with the score file deleted exactly when
\* remove_score_file is True.
C12_ExitStatusIsSilent ==
    \A p \in Procs :
        (entry[p] = "isis" /\ invoked[p].called)
        => /\ invoked[p].status \in ExitStatuses
           /\ exc[p] = ""
           /\ pc[p] = (IF conv[p].remove_score_file /\ ScoreFile(p).exists
                       THEN "remove" ELSE "returned")
           /\ pc[p] = "returned"
              => /\ ScoreFile(p).exists <=> ~ conv[p].remove_score_file
                 /\ Tail(trace[p]) = StepsAfterOpen(p)

\* C12 witness: a call whose command could not be started has returned, the
\* score file removed.
C12_Witness ==
    \E p \in Procs :
        /\ entry[p] = "isis"
        /\ invoked[p].called
        /\ invoked[p].status = 32512
        /\ conv[p].remove_score_file
        /\ pc[p] = "returned"
        /\ ~ ScoreFile(p).exists

\* the caller p is in a call, or has ended one
InCall(p) == pc[p] \notin {"off", "idle"}

\* no other caller has entered a call with the output path of p
PathIsOwn(p) ==
    \A q \in Procs \ {p} : InCall(q) => path[q] # path[p]

\* C13: when no other IsisConverter.convert call uses the same output path,
\* the tool of a call reads exactly the score that call wrote and its
\* deletion of the score file succeeds; calls on the same path can do
\* otherwise (the witness).
C13_DistinctPathsDoNotRace ==
    \A p \in Procs :
        (InCall(p) /\ entry[p] = "isis" /\ PathIsOwn(p))
        => /\ exc[p] # "FileNotFoundError"
           /\ invoked[p].called
              => /\ invoked[p].score_seen.exists
                 /\ ReadConfig(invoked[p].score_seen) = score_config_file[p]
           /\ pc[p] = "returned"
              => (ScoreFile(p).exists <=> ~ conv[p].remove_score_file)

\* the tool of p was invoked on a score file whose content is the one q
\* wrote and not the one p wrote
ToolReadOtherScore(p, q) ==
    /\ invoked[p].called
    /\ invoked[p].score_seen.exists
    /\ ReadConfig(invoked[p].score_seen) = score_config_file[q]
    /\ ReadConfig(invoked[p].score_seen) # score_config_file[p]

\* the tool of p was invoked after the score file had been deleted
ToolFoundNoScore(p) ==
    /\ invoked[p].called
    /\ ~ invoked[p].score_seen.exists

\* C13 witness: two calls on the same output path; the tool of one read the
\* score of the other, which then found its score file deleted when its
\* tool was invoked and failed to delete it.
C13_Witness ==
    \E p \in Procs : \E q \in Procs \ {p} :
        /\ entry[p] = "isis"
        /\ entry[q] = "isis"
        /\ path[p] = path[q]
        /\ ToolReadOtherScore(p, q)
        /\ pc[p] = "returned"
        /\ ToolFoundNoScore(q)
        /\ pc[q] = "raised"
        /\ exc[q] = "FileNotFoundError"

=============================================================================
